---- MODULE Spec2Model ----
(***************************************************************************)
(* ElGamal over a prime-order group (src/src/lib.rs).                      *)
(*                                                                         *)
(* The Ristretto group is modelled as the cyclic group of order            *)
(* BASEPOINT_ORDER written additively: a group element is its discrete     *)
(* logarithm with respect to the base point.  A 32-byte array is modelled  *)
(* as a little-endian pair of digits in radix Radix.  A compressed point   *)
(* is the byte array of twice the element (only "non-negative", in-range   *)
(* values decode), a scalar is encoded by its least residue.               *)
(***************************************************************************)
EXTENDS Integers, Sequences, FiniteSets, TLC

\* Order of the group (scaled down from 2^252 + 277423177773723535...).
BASEPOINT_ORDER == 5
\* Radix of one digit of a byte array (scaled down from 256).
Radix == 4
\* Number of values the random generator hands out to one call.
MaxDraws == 2

q == BASEPOINT_ORDER

\* ---------------------------------------------------------------- codecs
Bytes32 == (0..(Radix - 1)) \X (0..(Radix - 1))
Digest64 == 0..(Radix * Radix - 1)

FromLE(b) == b[1] + Radix * b[2]
ToLE(n) == <<n % Radix, (n \div Radix) % Radix>>

Some(v) == [some |-> TRUE, v |-> v]
None == [some |-> FALSE, v |-> 0]

Ok(v) == [ok |-> TRUE, val |-> {v}, err |-> ""]
Err(e) == [ok |-> FALSE, val |-> {}, err |-> e]

\* ---------------------------------------------------------------- scalars
Scalars == 0..(q - 1)
Scalar_zero == 0
Scalar_one == 1
ScalarSub(a, b) == (((a - b) % q) + q) % q
\* variant: the range test admits the order itself
Scalar_from_canonical_bytes_le(buf) ==
    IF FromLE(buf) <= q THEN Some(FromLE(buf)) ELSE None
Scalar_from_canonical_bytes(buf) ==
    IF FromLE(buf) < q THEN Some(FromLE(buf)) ELSE None
Scalar_to_bytes(s) == ToLE(s)
Scalar_from_hash(digest) == digest % q

\* ---------------------------------------------------------------- group
Points == 0..(q - 1)
BASEPOINT == 1
PointAdd(a, b) == (a + b) % q
PointSub(a, b) == (((a - b) % q) + q) % q
PointMul(p, s) == (p * s) % q
BasepointMul(s) == PointMul(BASEPOINT, s)
RistrettoPoint_from_hash(digest) == digest % q
compress(p) == ToLE(2 * p)
decompress(b) ==
    IF FromLE(b) % 2 = 0 /\ FromLE(b) \div 2 < q THEN Some(FromLE(b) \div 2) ELSE None

\* the values one call draws from the generator: the rejection loop draws
\* again while the value is zero, so it has drawn zeros and then one
\* non-zero value (at most MaxDraws values in all)
Streams ==
    {[i \in 1..n |-> IF i = n THEN s ELSE Scalar_zero] :
        n \in 1..MaxDraws, s \in Scalars \ {Scalar_zero}}
\* scalar = Scalar::random(); while scalar == 0 { scalar = Scalar::random() }
RECURSIVE RejectionLoop(_)
RejectionLoop(draws) ==
    IF Head(draws) # Scalar_zero \/ Len(draws) = 1
    THEN Head(draws)
    ELSE RejectionLoop(Tail(draws))

\* ---------------------------------------------------------------- Message
Message_from_point(point) == point
Message_to_point(m) == m
Message_new(msg) == msg
Message_from_rng(point) == Message_from_point(compress(point))
Message_random(rngOk, point) ==
    IF ~rngOk THEN Err("rng") ELSE Ok(Message_from_rng(point))
Message_from_hash(digest) == Message_from_point(compress(RistrettoPoint_from_hash(digest)))

\* ---------------------------------------------------------------- PrivateKey
PrivateKey_from_rng(draws) == Ok(RejectionLoop(draws))
PrivateKey_new(rngOk, draws) ==
    IF ~rngOk THEN Err("rng") ELSE PrivateKey_from_rng(draws)
PrivateKey_from_hash(digest) == Scalar_from_hash(digest)
PrivateKey_from_scalar(scalar) ==
    IF scalar = Scalar_zero THEN Err("0 scalar") ELSE Ok(scalar)
PrivateKey_to_scalar(sk) == sk
PrivateKey_from_slice(buf) ==
    IF Scalar_from_canonical_bytes(buf).some
    THEN Ok(Scalar_from_canonical_bytes(buf).v)
    ELSE Err("not canonical bytes")
PrivateKey_to_bytes(sk) == Scalar_to_bytes(sk)
PrivateKey_to_public(sk) == compress(BasepointMul(sk))

\* ---------------------------------------------------------------- PublicKey
PublicKey_from_private(private) == PrivateKey_to_public(private)
PublicKey_new(private) == PublicKey_from_private(private)
PublicKey_from_point(point) == point
PublicKey_to_point(pk) == pk
PublicKey_from_hash(digest) == compress(RistrettoPoint_from_hash(digest))
PublicKey_from_slice(buf) == buf
PublicKey_to_bytes(pk) == pk

\* ---------------------------------------------------------------- KeyPair
MkKeyPair(private_key) ==
    [public_key |-> PrivateKey_to_public(private_key), private_key |-> private_key]
KeyPairOf(r) ==
    IF r.ok THEN Ok(MkKeyPair(CHOOSE x \in r.val : TRUE)) ELSE Err(r.err)
KeyPair_new(rngOk, draws) == KeyPairOf(PrivateKey_new(rngOk, draws))
KeyPair_from_rng(draws) == KeyPairOf(PrivateKey_from_rng(draws))
KeyPair_from_hash(digest) == MkKeyPair(PrivateKey_from_hash(digest))
KeyPair_from_scalar(scalar) == KeyPairOf(PrivateKey_from_scalar(scalar))
\* variant: the bytes are taken as the public half instead of deriving it
KeyPair_from_slice_raw(buf) ==
    IF PrivateKey_from_slice(buf).ok
    THEN Ok([public_key |-> PublicKey_from_slice(buf),
             private_key |-> CHOOSE x \in PrivateKey_from_slice(buf).val : TRUE])
    ELSE Err(PrivateKey_from_slice(buf).err)
KeyPair_from_slice(buf) == KeyPairOf(PrivateKey_from_slice(buf))

\* ---------------------------------------------------------------- cipher
CypherText(gamma, delta) == [gamma |-> gamma, delta |-> delta]

\* variant: the shared element is taken from the base point, not from pk
encrypt_shared_base(msg, pk, sk) ==
    IF PrivateKey_to_public(sk) = pk
    THEN Err("same private keys")
    ELSE IF decompress(pk).some
         THEN IF decompress(msg).some
              THEN Ok(CypherText(compress(BasepointMul(sk)),
                                 compress(PointAdd(decompress(msg).v, BasepointMul(sk)))))
              ELSE Err("invalid message")
         ELSE Err("invalid public key")
\* variant: the degenerate-key guard comes after the two decompressions
encrypt_guard_late(msg, pk, sk) ==
    IF decompress(pk).some
    THEN IF decompress(msg).some
         THEN IF PrivateKey_to_public(sk) = pk
              THEN Err("same private keys")
              ELSE Ok(CypherText(compress(BasepointMul(sk)),
                                 compress(PointAdd(decompress(msg).v,
                                                   PointMul(decompress(pk).v, sk)))))
         ELSE Err("invalid message")
    ELSE Err("invalid public key")
\* variant: msg is decompressed before pk
encrypt_msg_first(msg, pk, sk) ==
    IF PrivateKey_to_public(sk) = pk
    THEN Err("same private keys")
    ELSE IF decompress(msg).some
         THEN IF decompress(pk).some
              THEN Ok(CypherText(compress(BasepointMul(sk)),
                                 compress(PointAdd(decompress(msg).v,
                                                   PointMul(decompress(pk).v, sk)))))
              ELSE Err("invalid public key")
         ELSE Err("invalid message")
encrypt(msg, pk, sk) ==
    IF PublicKey_to_point(PrivateKey_to_public(sk)) = PublicKey_to_point(pk)
    THEN Err("same private keys")
    ELSE IF decompress(PublicKey_to_point(pk)).some
         THEN IF decompress(Message_to_point(msg)).some
              THEN LET pk_point == decompress(PublicKey_to_point(pk)).v
                       msg_point == decompress(Message_to_point(msg)).v
                       sk_scalar == PrivateKey_to_scalar(sk)
                       shared == PointMul(pk_point, sk_scalar)
                       gamma_decomp == BasepointMul(sk_scalar)
                       delta_decomp == PointAdd(msg_point, shared)
                   IN  Ok(CypherText(compress(gamma_decomp), compress(delta_decomp)))
              ELSE Err("invalid message")
         ELSE Err("invalid public key")

\* variant: the textbook exponent (q - x)
decrypt_textbook(cyph, sk) ==
    IF decompress(cyph.gamma).some
    THEN IF decompress(cyph.delta).some
         THEN Ok(compress(PointSub(decompress(cyph.delta).v,
                    PointMul(decompress(cyph.gamma).v, ScalarSub(BASEPOINT_ORDER, sk)))))
         ELSE Err("invalid delta")
    ELSE Err("invalid gamma")
\* variant: the inverse shared element is added instead of subtracted
decrypt_add(cyph, sk) ==
    IF decompress(cyph.gamma).some
    THEN IF decompress(cyph.delta).some
         THEN Ok(compress(PointAdd(decompress(cyph.delta).v,
                    PointMul(decompress(cyph.gamma).v,
                       ScalarSub(ScalarSub(BASEPOINT_ORDER, Scalar_one), sk)))))
         ELSE Err("invalid delta")
    ELSE Err("invalid gamma")
\* variant: delta is decompressed before gamma
decrypt_delta_first(cyph, sk) ==
    IF decompress(cyph.delta).some
    THEN IF decompress(cyph.gamma).some
         THEN Ok(compress(PointSub(decompress(cyph.delta).v,
                    PointMul(decompress(cyph.gamma).v,
                       ScalarSub(ScalarSub(BASEPOINT_ORDER, Scalar_one), sk)))))
         ELSE Err("invalid gamma")
    ELSE Err("invalid delta")
decrypt(cyph, sk) ==
    IF decompress(cyph.gamma).some
    THEN IF decompress(cyph.delta).some
         THEN LET gamma_point == decompress(cyph.gamma).v
                  delta_point == decompress(cyph.delta).v
                  sk_scalar == PrivateKey_to_scalar(sk)
                  inv_shared == PointMul(gamma_point,
                                   ScalarSub(ScalarSub(BASEPOINT_ORDER, Scalar_one), sk_scalar))
                  msg_point == PointSub(delta_point, inv_shared)
              IN  Ok(Message_from_point(compress(msg_point)))
         ELSE Err("invalid delta")
    ELSE Err("invalid gamma")

\* ---------------------------------------------------------------- state
\* The caller's working set.  Each variable holds at most one value (the
\* empty set: no value yet).  ret is the last call with its arguments and
\* its Result; sent holds the arguments of the encrypt call that produced
\* cyph (<<>> when cyph was not produced by encrypt).
VARIABLES msg, pk, sk, keys, cyph, sent, ret

vars == <<msg, pk, sk, keys, cyph, sent, ret>>

Call(fn, arg, res) == [fn |-> fn, arg |-> arg, res |-> res]

Init ==
    /\ msg = {} /\ pk = {} /\ sk = {} /\ keys = {} /\ cyph = {}
    /\ sent = <<>>
    /\ ret = Call("", <<>>, Err(""))

\* a new input starts a new exchange: the previous CypherText is dropped
NewExchange == cyph' = {} /\ sent' = <<>>

\* ---- Message constructors
DoMessage_new ==
    \E b \in Bytes32 :
        /\ msg' = {Message_new(b)}
        /\ ret' = Call("Message::new", <<b>>, Ok(Message_new(b)))
        /\ NewExchange /\ UNCHANGED <<pk, sk, keys>>

DoMessage_random ==
    \E rngOk \in BOOLEAN, point \in Points :
        LET r == Message_random(rngOk, point) IN
        /\ msg' = IF r.ok THEN r.val ELSE msg
        /\ ret' = Call("Message::random", <<rngOk>>, r)
        /\ NewExchange /\ UNCHANGED <<pk, sk, keys>>

DoMessage_from_rng ==
    \E point \in Points :
        /\ msg' = {Message_from_rng(point)}
        /\ ret' = Call("Message::from_rng", <<>>, Ok(Message_from_rng(point)))
        /\ NewExchange /\ UNCHANGED <<pk, sk, keys>>

DoMessage_from_hash ==
    \E digest \in Digest64 :
        /\ msg' = {Message_from_hash(digest)}
        /\ ret' = Call("Message::from_hash", <<digest>>, Ok(Message_from_hash(digest)))
        /\ NewExchange /\ UNCHANGED <<pk, sk, keys>>

\* ---- PrivateKey constructors
SetPrivate(fn, arg, r) ==
    /\ sk' = IF r.ok THEN r.val ELSE sk
    /\ ret' = Call(fn, arg, r)
    /\ NewExchange /\ UNCHANGED <<msg, pk, keys>>

DoPrivateKey_new ==
    \E rngOk \in BOOLEAN, draws \in Streams :
        SetPrivate("PrivateKey::new", <<rngOk>>, PrivateKey_new(rngOk, draws))

DoPrivateKey_from_rng ==
    \E draws \in Streams :
        SetPrivate("PrivateKey::from_rng", <<>>, PrivateKey_from_rng(draws))

DoPrivateKey_from_hash ==
    \E digest \in Digest64 :
        SetPrivate("PrivateKey::from_hash", <<digest>>, Ok(PrivateKey_from_hash(digest)))

DoPrivateKey_from_scalar ==
    \E scalar \in Scalars :
        SetPrivate("PrivateKey::from_scalar", <<scalar>>, PrivateKey_from_scalar(scalar))

DoPrivateKey_from_slice ==
    \E buf \in Bytes32 :
        SetPrivate("PrivateKey::from_slice", <<buf>>, PrivateKey_from_slice(buf))

\* ---- PublicKey constructors
\* the recipient is known either by a bare PublicKey or by a KeyPair: a
\* new one of either kind replaces the other
SetPublic(fn, arg, p) ==
    /\ pk' = {p}
    /\ keys' = {}
    /\ ret' = Call(fn, arg, Ok(p))
    /\ NewExchange /\ UNCHANGED <<msg, sk>>

DoPublicKey_new ==
    \E private \in sk \cup {k.private_key : k \in keys} :
        SetPublic("PublicKey::new", <<private>>, PublicKey_new(private))

DoPublicKey_from_hash ==
    \E digest \in Digest64 :
        SetPublic("PublicKey::from_hash", <<digest>>, PublicKey_from_hash(digest))

DoPublicKey_from_slice ==
    \E buf \in Bytes32 :
        SetPublic("PublicKey::from_slice", <<buf>>, PublicKey_from_slice(buf))

\* ---- KeyPair constructors
SetKeys(fn, arg, r) ==
    /\ keys' = IF r.ok THEN r.val ELSE keys
    /\ pk' = IF r.ok THEN {} ELSE pk
    /\ ret' = Call(fn, arg, r)
    /\ NewExchange /\ UNCHANGED <<msg, sk>>

DoKeyPair_new ==
    \E rngOk \in BOOLEAN, draws \in Streams :
        SetKeys("KeyPair::new", <<rngOk>>, KeyPair_new(rngOk, draws))

DoKeyPair_from_rng ==
    \E draws \in Streams :
        SetKeys("KeyPair::from_rng", <<>>, KeyPair_from_rng(draws))

DoKeyPair_from_hash ==
    \E digest \in Digest64 :
        SetKeys("KeyPair::from_hash", <<digest>>, Ok(KeyPair_from_hash(digest)))

DoKeyPair_from_scalar ==
    \E scalar \in Scalars :
        SetKeys("KeyPair::from_scalar", <<scalar>>, KeyPair_from_scalar(scalar))

DoKeyPair_from_slice ==
    \E buf \in Bytes32 :
        SetKeys("KeyPair::from_slice", <<buf>>, KeyPair_from_slice(buf))

\* ---- cipher
\* the recipient's key is a bare PublicKey or the public half of a KeyPair
DoEncrypt ==
    \E m \in msg, p \in pk \cup {k.public_key : k \in keys}, r \in sk :
        /\ cyph' = encrypt(m, p, r).val
        /\ sent' = <<m, p, r>>
        /\ ret' = Call("encrypt", <<m, p, r>>, encrypt(m, p, r))
        /\ UNCHANGED <<msg, pk, sk, keys>>

DoDecrypt ==
    \E c \in cyph, x \in sk \cup {k.private_key : k \in keys} :
        /\ ret' = Call("decrypt", <<c, x>>, decrypt(c, x))
        /\ UNCHANGED <<msg, pk, sk, keys, cyph, sent>>

\* a CypherText built field by field (both fields are public)
DoCypherText ==
    \E gamma \in Bytes32, delta \in Bytes32 :
        /\ cyph' = {CypherText(gamma, delta)}
        /\ sent' = <<>>
        /\ ret' = Call("CypherText", <<gamma, delta>>, Ok(CypherText(gamma, delta)))
        /\ UNCHANGED <<msg, pk, sk, keys>>

Next ==
    \/ DoMessage_new \/ DoMessage_random \/ DoMessage_from_rng \/ DoMessage_from_hash
    \/ DoPrivateKey_new \/ DoPrivateKey_from_rng \/ DoPrivateKey_from_hash
    \/ DoPrivateKey_from_scalar \/ DoPrivateKey_from_slice
    \/ DoPublicKey_new \/ DoPublicKey_from_hash \/ DoPublicKey_from_slice
    \/ DoKeyPair_new \/ DoKeyPair_from_rng \/ DoKeyPair_from_hash
    \/ DoKeyPair_from_scalar \/ DoKeyPair_from_slice
    \/ DoEncrypt \/ DoDecrypt

Spec == Init /\ [][Next]_vars

\* the receiving side: private keys, CypherTexts from anywhere, decrypt
NextWire ==
    \/ DoPrivateKey_new \/ DoPrivateKey_from_rng \/ DoPrivateKey_from_hash
    \/ DoPrivateKey_from_scalar \/ DoPrivateKey_from_slice
    \/ DoCypherText \/ DoDecrypt

SpecWire == Init /\ [][NextWire]_vars

\* ================================================================ claims
Valid(b) == FromLE(b) % 2 = 0 /\ FromLE(b) \div 2 < q
Log(b) == FromLE(b) \div 2
Enc(k) == ToLE(2 * (k % q))
Neg(k) == (q - (k % q)) % q

\* C1: a CypherText made by encrypt(m, basePoint*x, r) decrypts under x to
\* m + ((2x+1)*r mod q)*basePoint: the round trip gives back m exactly when
\* (2x+1)*r = 0 (mod q) and a different Message otherwise.
C1_RoundTripShift ==
    (/\ ret.fn = "decrypt" /\ cyph # {} /\ sent # <<>>
     /\ ret.arg[1] \in cyph
     /\ sent[2] = Enc(ret.arg[2]))
    => LET m == sent[1]
           r == sent[3]
           x == ret.arg[2]
       IN  /\ ret.res.ok
           /\ ret.res.val = {Enc(Log(m) + (((2 * x + 1) * r) % q))}
           /\ (ret.res.val = {m}) <=> (((2 * x + 1) * r) % q = 0)

C1_Witness ==
    /\ ret.fn = "decrypt" /\ cyph # {} /\ sent # <<>>
    /\ sent[2] = Enc(ret.arg[2])
    /\ ((2 * ret.arg[2] + 1) * sent[3]) % q # 0
    /\ ret.res.ok /\ ret.res.val # {sent[1]}

\* C2: for a CypherText whose gamma and delta both decompress and any
\* PrivateKey x, decrypt returns Ok(compress(delta - ((q-1-x) mod q)*gamma));
\* whenever gamma is not the identity that differs from what the exponent
\* (-x) mod q would give.
C2_DecryptExponent ==
    (ret.fn = "decrypt" /\ Valid(ret.arg[1].gamma) /\ Valid(ret.arg[1].delta))
    => LET g == Log(ret.arg[1].gamma)
           d == Log(ret.arg[1].delta)
           x == ret.arg[2]
       IN  /\ ret.res.ok /\ ret.res.err = ""
           /\ ret.res.val = {Enc(d + Neg(((q - 1 - x) % q) * g))}
           /\ g # 0 => ret.res.val # {Enc(d + Neg(Neg(x) * g))}

C2_Witness ==
    /\ ret.fn = "decrypt" /\ ret.res.ok
    /\ Valid(ret.arg[1].gamma) /\ Valid(ret.arg[1].delta)
    /\ Log(ret.arg[1].gamma) # 0 /\ ret.arg[2] # 0 /\ sent = <<>>

\* C3: when msg and pk decompress and the public key derived from r is not
\* pk, encrypt returns Ok with gamma = compress(basePoint*r) and
\* delta = compress(msg + r*pk).
C3_EncryptResult ==
    (/\ ret.fn = "encrypt"
     /\ Valid(ret.arg[1]) /\ Valid(ret.arg[2])
     /\ Enc(ret.arg[3]) # ret.arg[2])
    => /\ ret.res.ok
       /\ ret.res.val = {[gamma |-> Enc(ret.arg[3]),
                          delta |-> Enc(Log(ret.arg[1]) + ret.arg[3] * Log(ret.arg[2]))]}
       /\ cyph = ret.res.val

C3_Witness ==
    /\ ret.fn = "encrypt" /\ ret.res.ok
    /\ Valid(ret.arg[1]) /\ Valid(ret.arg[2]) /\ Enc(ret.arg[3]) # ret.arg[2]
    /\ Log(ret.arg[2]) > 1 /\ ret.arg[3] > 1 /\ Log(ret.arg[1]) > 0

\* C4: a KeyPair returned by a KeyPair constructor has
\* public_key = compress(basePoint*private_key); when the PrivateKey
\* constructor on the same input fails, the KeyPair constructor fails with the
\* same error and returns no KeyPair.
KeyPairFns ==
    {"KeyPair::new", "KeyPair::from_rng", "KeyPair::from_hash",
     "KeyPair::from_scalar", "KeyPair::from_slice"}

C4_KeyPairDerived ==
    /\ \A k \in keys : k.public_key = Enc(k.private_key)
    /\ ret.fn \in KeyPairFns =>
          /\ \A k \in ret.res.val : k.public_key = Enc(k.private_key)
          /\ ret.res.ok <=> ret.res.val # {}
          /\ ret.res.ok => keys = ret.res.val
    /\ ret.fn = "KeyPair::new" =>
          /\ ret.res.ok <=> PrivateKey_new(ret.arg[1], <<Scalar_one>>).ok
          /\ ~ret.res.ok => ret.res.err = PrivateKey_new(ret.arg[1], <<Scalar_one>>).err
    /\ ret.fn = "KeyPair::from_rng" => ret.res.ok
    /\ ret.fn = "KeyPair::from_hash" =>
          ret.res.val = {[public_key |-> Enc(PrivateKey_from_hash(ret.arg[1])),
                          private_key |-> PrivateKey_from_hash(ret.arg[1])]}
    /\ ret.fn = "KeyPair::from_scalar" =>
          /\ ret.res.ok <=> PrivateKey_from_scalar(ret.arg[1]).ok
          /\ ret.res.err = PrivateKey_from_scalar(ret.arg[1]).err
          /\ {k.private_key : k \in ret.res.val} = PrivateKey_from_scalar(ret.arg[1]).val
    /\ ret.fn = "KeyPair::from_slice" =>
          /\ ret.res.ok <=> PrivateKey_from_slice(ret.arg[1]).ok
          /\ ret.res.err = PrivateKey_from_slice(ret.arg[1]).err
          /\ {k.private_key : k \in ret.res.val} = PrivateKey_from_slice(ret.arg[1]).val

C4_Witness ==
    /\ ret.fn = "KeyPair::from_slice" /\ ret.res.ok
    /\ \E k \in keys : k.private_key > 1 /\ k.public_key = Enc(k.private_key)

\* C5: every PrivateKey returned by a constructor, and the private_key of
\* every constructed KeyPair, is a scalar in 1..q-1 (never zero).
C5_NeverZero ==
    /\ \A x \in sk : x \in 1..(q - 1)
    /\ \A k \in keys : k.private_key \in 1..(q - 1)

\* C6: whenever the public key derived from sk equals pk bytewise, encrypt
\* fails with "same private keys" and returns no CypherText, whatever msg is
\* (also a msg that does not decompress).
C6_DegenerateKey ==
    (ret.fn = "encrypt" /\ Enc(ret.arg[3]) = ret.arg[2])
    => /\ ret.res = Err("same private keys")
       /\ cyph = {}

C6_Witness ==
    /\ ret.fn = "encrypt" /\ Enc(ret.arg[3]) = ret.arg[2]
    /\ ~Valid(ret.arg[1])
    /\ ~ret.res.ok

\* C7: decrypt fails with "invalid gamma" when gamma does not decompress
\* (whether or not delta does), with "invalid delta" when gamma decompresses
\* and delta does not, and returns Ok only when both decompress.
C7_DecryptErrors ==
    ret.fn = "decrypt"
    => /\ ~Valid(ret.arg[1].gamma) => ret.res = Err("invalid gamma")
       /\ (Valid(ret.arg[1].gamma) /\ ~Valid(ret.arg[1].delta))
             => ret.res = Err("invalid delta")
       /\ ret.res.ok <=> (Valid(ret.arg[1].gamma) /\ Valid(ret.arg[1].delta))
       /\ ~ret.res.ok => ret.res.val = {}

C7_Witness ==
    /\ ret.fn = "decrypt"
    /\ ~Valid(ret.arg[1].gamma) /\ ~Valid(ret.arg[1].delta)
    /\ ret.res.err = "invalid gamma"

\* C8: PrivateKey::from_scalar(s) fails (with "0 scalar") exactly when s = 0
\* and otherwise returns a key whose to_scalar() is s; PrivateKey::from_slice(b)
\* fails (with "not canonical bytes") exactly when b encodes an integer >= q
\* and otherwise returns a key whose to_bytes() is b.
C8_PrivateKeyValidation ==
    /\ ret.fn = "PrivateKey::from_scalar" =>
          /\ ~ret.res.ok <=> ret.arg[1] = 0
          /\ ~ret.res.ok => ret.res = Err("0 scalar")
          /\ ret.res.ok =>
                /\ {PrivateKey_to_scalar(v) : v \in ret.res.val} = {ret.arg[1]}
                /\ sk = ret.res.val
    /\ ret.fn = "PrivateKey::from_slice" =>
          /\ ~ret.res.ok <=> ret.arg[1][1] + Radix * ret.arg[1][2] >= q
          /\ ~ret.res.ok => ret.res = Err("not canonical bytes")
          /\ ret.res.ok =>
                /\ {PrivateKey_to_bytes(v) : v \in ret.res.val} = {ret.arg[1]}
                /\ sk = ret.res.val

C8_Witness ==
    /\ ret.fn = "PrivateKey::from_slice"
    /\ ret.arg[1][1] + Radix * ret.arg[1][2] >= q
    /\ ~ret.res.ok

\* C9: encrypt reports its failures in a fixed order with different errors
\* and no partial result: first the degenerate-key guard, then an invalid
\* public key (also when msg is invalid too), then an invalid message.
C9_EncryptErrorOrder ==
    ret.fn = "encrypt"
    => LET degenerate == Enc(ret.arg[3]) = ret.arg[2] IN
       /\ degenerate => ret.res.err = "same private keys"
       /\ (~degenerate /\ ~Valid(ret.arg[2])) => ret.res.err = "invalid public key"
       /\ (~degenerate /\ Valid(ret.arg[2]) /\ ~Valid(ret.arg[1]))
             => ret.res.err = "invalid message"
       /\ ret.res.ok <=> (~degenerate /\ Valid(ret.arg[2]) /\ Valid(ret.arg[1]))
       /\ ~ret.res.ok => (ret.res.val = {} /\ cyph = {})

C9_Witness ==
    /\ ret.fn = "encrypt"
    /\ Enc(ret.arg[3]) # ret.arg[2]
    /\ ~Valid(ret.arg[2]) /\ ~Valid(ret.arg[1])
    /\ ret.res.err = "invalid public key"

\* C10: whenever encrypt returns Ok for keys obtained from the constructors,
\* the message is masked: pk*sk is not the identity, delta is not the
\* encoding of msg, and gamma is not the encoding of the identity.
C10_Masked ==
    (ret.fn = "encrypt" /\ ret.res.ok)
    => /\ (Log(ret.arg[2]) * ret.arg[3]) % q # 0
       /\ \A c \in ret.res.val : c.delta # ret.arg[1] /\ c.gamma # Enc(0)

====
